---- MODULE Spec2Model ----
(***************************************************************************)
(* Client-side data layer of the DocBot admin dashboard.                   *)
(*                                                                         *)
(*  - Transport: request() of the central API client (lib/api).            *)
(*  - Poller/Cache: the useQuery subscriptions of the dashboard            *)
(*    components.  useQuery is the hook of @tanstack/react-query; what a   *)
(*    call does (one cache entry per queryKey, one observer per mounted    *)
(*    component, one interval timer per observer, de-duplication of        *)
(*    fetches per entry) is the documented behaviour of that hook for the  *)
(*    options the components pass.  Options the components do not pass     *)
(*    come from the QueryClient, which is constructed outside the files    *)
(*    modelled here; see retry and staleTime below.                        *)
(*  - Section switching of pages/Index, which mounts and unmounts the      *)
(*    components and so subscribes and unsubscribes the observers.         *)
(***************************************************************************)
EXTENDS Integers, Sequences, FiniteSets, TLC

(***************************************************************************)
(* Bounds.                                                                 *)
(***************************************************************************)
\* Transport calls issued per resource key in one behaviour.
MaxIssued == 3

\* Times the settings form is mounted in one behaviour.
MaxMounts == 2

\* Field edits of the operator in one behaviour.
MaxEdits == 3

\* Settings saves that reach the network in one behaviour.
MaxPosts == 2

\* Exports the operator starts in one behaviour.
MaxClicks == 3

\* Digits of the longest phone number a row shows.
MaxPhoneLen == 8

(***************************************************************************)
(* pages/Index: sections and the components each section renders.          *)
(***************************************************************************)
Sections ==
  {"dashboard", "analytics", "users", "errors", "system", "history",
   "settings", "setup"}

SectionContent(section) ==
  CASE section = "dashboard" ->
         {"StatsCard", "AnalyticsCharts", "FeatureUsageChart",
          "UserAnalytics", "GeoDistribution"}
    [] section = "analytics" -> {"AnalyticsCharts", "FeatureUsageChart"}
    [] section = "users"     -> {"UserAnalytics", "GeoDistribution"}
    [] section = "errors"    -> {"ErrorTracking"}
    [] section = "system"    -> {"SystemHealth"}
    [] section = "history"   -> {"ConversionsTable"}
    [] section = "settings"  -> {"SettingsForm"}
    [] section = "setup"     -> {"SetupGuide"}

(***************************************************************************)
(* The useQuery call of each component: queryKey and refetchInterval.      *)
(***************************************************************************)
Polled ==
  {"StatsCard", "UserAnalytics", "GeoDistribution", "ErrorTracking",
   "AnalyticsCharts"}

\* AnalyticsCharts: type DayRange, the values of its `days` state.
DayRanges == {"7", "14", "30"}

queryKeyPerComponent(c, d) ==
  CASE c = "StatsCard"       -> "stats"
    [] c = "UserAnalytics"   -> "userAnalytics"
    [] c = "GeoDistribution" -> "geoDistribution"
    [] c = "ErrorTracking"   -> "errorTracking"
    [] c = "AnalyticsCharts" -> "timeseries:" \o d

queryKeyWithoutDays(c, d) ==
  CASE c = "StatsCard"       -> "stats"
    [] c = "UserAnalytics"   -> "userAnalytics"
    [] c = "GeoDistribution" -> "userAnalytics"
    [] c = "ErrorTracking"   -> "errorTracking"
    [] c = "AnalyticsCharts" -> "timeseries:30"

\* queryKey of the useQuery call of component c, whose `days` state (if it
\* has one) is d.  ["timeseries", days] is written "timeseries:<days>".
queryKeyFor(c, d) ==
  CASE c = "StatsCard"       -> "stats"
    [] c = "UserAnalytics"   -> "userAnalytics"
    [] c = "GeoDistribution" -> "userAnalytics"
    [] c = "ErrorTracking"   -> "errorTracking"
    [] c = "AnalyticsCharts" -> "timeseries:" \o d

refetchInterval(c) ==
  CASE c = "StatsCard"       -> 30000
    [] c = "UserAnalytics"   -> 30000
    [] c = "GeoDistribution" -> 60000
    [] c = "ErrorTracking"   -> 30000
    [] c = "AnalyticsCharts" -> 60000

Keys == {queryKeyFor(c, d) : c \in Polled, d \in DayRanges}

\* Number(days) for the strings of DayRange.
Number(str) ==
  CASE str = "7"  -> 7
    [] str = "14" -> 14
    [] str = "30" -> 30

getTimeseriesDefault(n) == "/api/admin/analytics/timeseries?days=30"

\* api.getTimeseries(days): the path it requests.
getTimeseries(n) == "/api/admin/analytics/timeseries?days=" \o ToString(n)

\* Path requested by the queryFn of component c whose `days` state is d.
queryFnPath(c, d) ==
  CASE c = "StatsCard"       -> "/api/admin/stats"
    [] c = "UserAnalytics"   -> "/api/admin/analytics/users"
    [] c = "GeoDistribution" -> "/api/admin/analytics/users"
    [] c = "ErrorTracking"   -> "/api/admin/analytics/errors"
    [] c = "AnalyticsCharts" -> getTimeseries(Number(d))

\* The cache keeps one independent entry per key.  One behaviour follows the
\* entries of one group of components: those rendered by the first section
\* (one key with one observer, one key with two observers), or one rendered
\* only by a section entered later.
TrackedGroups ==
  { {"StatsCard", "UserAnalytics", "GeoDistribution"}, {"ErrorTracking"},
    {"AnalyticsCharts"} }

(***************************************************************************)
(* QueryClient options.  The components pass none of them; they come from  *)
(* the QueryClient construction, which is not among the modelled files.    *)
(***************************************************************************)
\* Number of automatic retries of a failed fetch.
retry == 0

shouldRetryOnce(failureCount) == failureCount < retry + 1

\* A failed call is tried again while fewer than `retry` calls have failed.
shouldRetry(failureCount) == failureCount < retry

\* Age after which cached data is refetched when an observer subscribes.
staleTime == 0

abortSignalConsumedAlways == TRUE

\* The queryFns (api.getStats, api.getUserAnalytics, api.getErrorTracking)
\* take no argument: none of them reads the AbortSignal of the query context.
abortSignalConsumed == FALSE

(***************************************************************************)
(* Transport: request().                                                   *)
(* A response is what fetch() produces for one call.                       *)
(*   net         FALSE when fetch() itself rejects (service unreachable)   *)
(*   status      HTTP status                                               *)
(*   statusText  reason phrase of the status line ("" over HTTP/2, which   *)
(*               carries none)                                             *)
(*   json        TRUE when the body parses as JSON                         *)
(*   detail      the `detail` field of a JSON error body ("" when absent)  *)
(***************************************************************************)
Responses ==
  { [net |-> TRUE,  status |-> 200, statusText |-> "OK",
     json |-> TRUE,  detail |-> ""],
    [net |-> TRUE,  status |-> 200, statusText |-> "OK",
     json |-> FALSE, detail |-> ""],
    [net |-> TRUE,  status |-> 500, statusText |-> "Internal Server Error",
     json |-> TRUE,  detail |-> "Internal error"],
    [net |-> FALSE, status |-> 0,   statusText |-> "",
     json |-> FALSE, detail |-> ""] }

responseOk(resp) == resp.status >= 200 /\ resp.status <= 299

requestStatusTextOnly(resp, payload) ==
  IF ~resp.net
    THEN [tag |-> "throw", message |-> "Failed to fetch"]
  ELSE IF ~responseOk(resp)
    THEN [tag |-> "throw",
          message |-> IF resp.statusText # "" THEN resp.statusText
                      ELSE "Request failed: " \o ToString(resp.status)]
  ELSE IF ~resp.json
    THEN [tag |-> "throw", message |-> "Unexpected token"]
  ELSE [tag |-> "return", value |-> payload]

requestReturnsUndecoded(resp, payload) ==
  IF ~resp.net
    THEN [tag |-> "throw", message |-> "Failed to fetch"]
  ELSE IF ~responseOk(resp)
    THEN LET detail == IF resp.json THEN resp.detail ELSE resp.statusText
         IN  [tag |-> "throw",
              message |-> IF detail # "" THEN detail
                          ELSE "Request failed: " \o ToString(resp.status)]
  ELSE [tag |-> "return", value |-> payload]

\* request(): the value the returned promise settles with.  `payload` is the
\* decoded body of a successful response.
request(resp, payload) ==
  IF ~resp.net
    THEN [tag |-> "throw", message |-> "Failed to fetch"]
  ELSE IF ~responseOk(resp)
    THEN LET detail == IF resp.json THEN resp.detail ELSE resp.statusText
         IN  [tag |-> "throw",
              message |-> IF detail # "" THEN detail
                          ELSE "Request failed: " \o ToString(resp.status)]
  ELSE IF ~resp.json
    THEN [tag |-> "throw", message |-> "Unexpected token"]
  ELSE [tag |-> "return", value |-> payload]

\* Responses to a call of request() followed on its own: also an error body
\* without `detail`, and error bodies that are not JSON with and without a
\* reason phrase.
TransportResponses ==
  Responses \cup
  { [net |-> TRUE, status |-> 404, statusText |-> "Not Found",
     json |-> TRUE,  detail |-> "Not found"],
    [net |-> TRUE, status |-> 500, statusText |-> "Internal Server Error",
     json |-> TRUE,  detail |-> ""],
    [net |-> TRUE, status |-> 500, statusText |-> "Internal Server Error",
     json |-> FALSE, detail |-> ""],
    [net |-> TRUE, status |-> 502, statusText |-> "",
     json |-> FALSE, detail |-> ""] }

\* import.meta.env.VITE_API_URL: unset ("") or set.
ViteApiUrls == {"", "https://api.example.com"}

API_BASE_URL(env) == IF env # "" THEN env ELSE "http://localhost:8000"

\* Paths the api object passes to request().
Paths == {"/api/admin/stats", "/api/admin/settings", "/health"}

\* Headers a caller may pass in options.headers: a record of names to values.
HeaderNames == {"Content-Type", "Authorization"}
HeaderValues == {"application/json", "text/plain", "Bearer abc"}

\* options.headers is a HeadersInit: a plain object of names and values, or
\* a Headers instance holding them.
CallerHeaders ==
  [form : {"object", "Headers"},
   entries : UNION { [names -> HeaderValues] : names \in SUBSET HeaderNames }]

\* The own enumerable properties an object spread copies: the entries of a
\* plain object; a Headers instance has none.
ownProperties(headers) ==
  IF headers.form = "object" THEN headers.entries
                             ELSE [n \in {} |-> ""]

\* options of request(): absent (method GET, no body, no headers) or given.
Options ==
  [method : {"GET"}, body : {""}, headers : CallerHeaders] \cup
  [method : {"POST"}, body : {"{...}"}, headers : CallerHeaders]

\* { ...first, ...second }: a name in both takes the value of the second.
spread(first, second) ==
  [n \in DOMAIN first \cup DOMAIN second |->
     IF n \in DOMAIN second THEN second[n] ELSE first[n]]

\* The init request() passes to fetch():
\*   { ...options, headers: { "Content-Type": "application/json",
\*                            ...options?.headers } }
fetchInit(options) ==
  [method |-> options.method, body |-> options.body,
   headers |-> spread([n \in {"Content-Type"} |-> "application/json"],
                      ownProperties(options.headers))]

(***************************************************************************)
(* State.                                                                  *)
(***************************************************************************)
VARIABLES
  activeSection,  \* Index: useState<Section>("dashboard")
  tracked,        \* the group of components whose cache entries are followed
  cache,          \* query state per key
  inflight,       \* per key, the Transport calls in flight (request numbers)
  issued,         \* per key, number of Transport calls issued so far
  requested,      \* per key, the path of the call issued last ("" if none)
  days,           \* AnalyticsCharts: useState<DayRange>("30")
  lastEvent,      \* history: the last step taken
  form,           \* SettingsForm: values of the mounted form (useForm)
  formErrors,     \* SettingsForm: field-level messages (formState.errors)
  isSubmitted,    \* SettingsForm: formState.isSubmitted
  isLoading,      \* SettingsForm: useState(false)
  mounts,         \* number of SettingsForm instances mounted so far
  loads,          \* api.getSettings() calls in flight, by form instance
  saves,          \* api.saveSettings() calls in flight
  toast,          \* last notification shown by toast
  server,         \* credentials stored by the backend
  edits,          \* history: number of field edits
  posts,          \* history: number of saves sent to the network
  state,          \* ExportButton: useState<ExportState>("idle")
  errorMessage,   \* ExportButton: useState("")
  exporting,      \* api.exportConversions() calls in flight (export numbers)
  timers,         \* ExportButton: pending setTimeout callbacks
  shown,          \* history: ms since setState last ran in ExportButton
  clicks,         \* history: number of exports started
  download,       \* the file the browser saved last (link.download, link.click())
  call,           \* request(): the call being followed
  cell            \* the phone cell of a table row rendered last

pollerVars == <<tracked, cache, inflight, issued, requested, days>>

settingsVars ==
  <<form, formErrors, isSubmitted, isLoading, mounts, loads, saves, toast,
    server, edits, posts>>

exportVars ==
  <<state, errorMessage, exporting, timers, shown, clicks, download>>

transportVars == <<call>>

tableVars == <<cell>>

vars ==
  <<activeSection, lastEvent, pollerVars, settingsVars, exportVars,
    transportVars, tableVars>>

\* Data absent (undefined).
NoData == 0
NoError == "none"

\* Observers a section subscribes.
Observers(section) == SectionContent(section) \cap tracked

\* queryKey of component c as rendered now.
queryKey(c) == queryKeyFor(c, days)

\* The observers of key k among the mounted components of a section.
ObserversOf(section, k) == {c \in Observers(section) : queryKey(c) = k}

\* The observers of key k among the components of a section when they
\* mount: a mounting AnalyticsCharts starts with days "30".
MountingObserversOf(section, k) ==
  {c \in Observers(section) : queryKeyFor(c, "30") = k}

\* For the keys the components `cs` observe with `days` d, the path their
\* queryFn requests.
pathsOf(cs, d) ==
  [k \in {queryKeyFor(c, d) : c \in cs} |->
     queryFnPath(CHOOSE c \in cs : queryKeyFor(c, d) = k, d)]

Fetching(k) == inflight[k] # {}

\* fetchStatus of the query.
fetchStatus(k) == IF Fetching(k) THEN "fetching" ELSE "idle"

(***************************************************************************)
(* Query state and its reducers.                                           *)
(*   status, data, error, fetchFailureCount   as in the query state        *)
(*   revert      status and error before the running fetch (revertState)   *)
(*   committed   history: number of the call whose outcome was written last *)
(*   from        history: path of the call whose response is the data      *)
(***************************************************************************)
initialState ==
  [status |-> "pending", data |-> NoData, error |-> NoError,
   fetchFailureCount |-> 0,
   revert |-> [status |-> "pending", error |-> NoError],
   committed |-> 0,
   from |-> ""]

\* 'fetch': a fetch starts.  Without data the entry goes back to pending and
\* drops its error; with data, status and error stay until the outcome.
fetchState(st) ==
  IF st.data = NoData
    THEN [st EXCEPT !.status = "pending", !.error = NoError,
                    !.fetchFailureCount = 0,
                    !.revert = [status |-> st.status, error |-> st.error]]
    ELSE [st EXCEPT !.fetchFailureCount = 0,
                    !.revert = [status |-> st.status, error |-> st.error]]

successStateKeepsError(st, data, id) ==
  [st EXCEPT !.status = "success", !.data = data, !.fetchFailureCount = 0,
             !.committed = id]

\* 'success': data replaced, error cleared.
successState(st, data, id) ==
  [st EXCEPT !.status = "success", !.data = data, !.error = NoError,
             !.fetchFailureCount = 0,
             !.committed = id]

errorStateBlanksData(st, message, id) ==
  [st EXCEPT !.status = "error", !.error = message, !.data = NoData,
             !.fetchFailureCount = @ + 1,
             !.committed = id]

\* 'error': error recorded, data kept.
errorState(st, message, id) ==
  [st EXCEPT !.status = "error", !.error = message,
             !.fetchFailureCount = @ + 1,
             !.committed = id]

\* Cancellation with revert: back to the state before the fetch.
revertState(st) ==
  [st EXCEPT !.status = st.revert.status, !.error = st.revert.error]

(***************************************************************************)
(* Query.removeObserver(): the last observer of an entry goes away.        *)
(* A running fetch is cancelled only when the queryFn consumed the abort   *)
(* signal; otherwise it continues so that its result can be cached.        *)
(***************************************************************************)
cancelsOnLeave(section, k) ==
  ObserversOf(section, k) # {} /\ Fetching(k) /\ abortSignalConsumed

inflightAfterLeave(section, k) ==
  IF cancelsOnLeave(section, k) THEN {} ELSE inflight[k]

cacheAfterLeave(section, k) ==
  IF cancelsOnLeave(section, k) THEN revertState(cache[k]) ELSE cache[k]

(***************************************************************************)
(* Query.fetch() and QueryObserver.onSubscribe().                          *)
(***************************************************************************)
joinsInFlightNever(calls) == FALSE

\* A fetch asked for while one is in flight returns the in-flight promise.
joinsInFlight(calls) == calls # {}

shouldFetchOnMountOnlyWithoutData(st) == st.data = NoData

\* shouldFetchOnMount: no data yet, or data older than staleTime.
shouldFetchOnMount(st) == st.data = NoData \/ staleTime = 0

(***************************************************************************)
(* SettingsForm: the credential form.                                      *)
(***************************************************************************)
CredentialFields ==
  {"whatsapp_business_account_id", "phone_number_id", "access_token",
   "webhook_verify_token"}

Fields == CredentialFields \cup {"admin_password"}

\* Values the operator types and the backend stores.
CredentialValues == {"", "123", "456"}
PasswordValues == {"", "abcde", "secret"}

FieldValues(f) == IF f = "admin_password" THEN PasswordValues ELSE CredentialValues

\* useForm defaultValues.
defaultValues == [f \in Fields |-> ""]

NoMessage == ""
noErrors == [f \in Fields |-> NoMessage]

NoToast == [kind |-> "none", message |-> ""]

settingsSchemaAcceptsAnyPassword(f, v) ==
  IF f = "admin_password" THEN NoMessage
  ELSE IF Len(v) >= 1 THEN NoMessage ELSE "Required"

\* settingsSchema: the message zod reports for value v of field f.
settingsSchema(f, v) ==
  IF f = "admin_password"
    THEN IF Len(v) >= 6 THEN NoMessage ELSE "Minimum 6 characters"
    ELSE IF Len(v) >= 1 THEN NoMessage ELSE "Required"

\* zodResolver: the messages of all fields.
resolver(values) == [f \in Fields |-> settingsSchema(f, values[f])]

\* A credential the backend has no value for (null in the response).
Unset == "<unset>"

\* The settings the backend holds before the first save.
ServerInits ==
  { [f \in CredentialFields |-> ""], [f \in CredentialFields |-> "123"],
    [f \in CredentialFields |-> Unset] }

\* The backend keeps the four credentials of an accepted save and answers
\* GET /api/admin/settings with them.
storeSettings(data) == [f \in CredentialFields |-> data[f]]

\* settings.x || "".
orEmpty(v) == IF v = Unset THEN "" ELSE v

loadedValuesSwapIds(settings) ==
  [f \in Fields |->
     IF f = "admin_password" THEN ""
     ELSE IF f = "phone_number_id"
       THEN orEmpty(settings["whatsapp_business_account_id"])
     ELSE IF f = "whatsapp_business_account_id"
       THEN orEmpty(settings["phone_number_id"])
     ELSE orEmpty(settings[f])]

loadedValuesSkipToken(settings) ==
  [f \in Fields |->
     IF f \in {"admin_password", "access_token"} THEN ""
     ELSE orEmpty(settings[f])]

\* loadSettings: the values form.reset() is given.
loadedValues(settings) ==
  [f \in Fields |->
     IF f = "admin_password" THEN "" ELSE orEmpty(settings[f])]

saveFailureMessageGeneric(message) == "Failed to save settings"

\* onSubmit, catch: error.message || "Failed to save settings".
saveFailureMessage(message) ==
  IF message # "" THEN message ELSE "Failed to save settings"

SettingsInit ==
  /\ form = defaultValues
  /\ formErrors = noErrors
  /\ isSubmitted = FALSE
  /\ isLoading = FALSE
  /\ mounts = 0
  /\ loads = {}
  /\ saves = {}
  /\ toast = NoToast
  /\ server \in ServerInits
  /\ edits = 0
  /\ posts = 0

\* The SettingsForm instance on screen (0: none).
mounted == IF activeSection = "settings" THEN mounts ELSE 0

submitDisabledNever == FALSE

\* The submit button: disabled={isLoading}.
submitDisabled == isLoading

\* SettingsForm mounts: a new form with the default values; the effect
\* starts loadSettings().
mountSettings ==
  /\ mounts < MaxMounts
  /\ mounts' = mounts + 1
  /\ loads' = loads \cup {mounts + 1}
  /\ form' = defaultValues
  /\ formErrors' = noErrors
  /\ isSubmitted' = FALSE
  /\ isLoading' = FALSE
  /\ UNCHANGED <<saves, toast, server, edits, posts>>

\* SettingsForm unmounts: its form and its state are gone; calls in flight
\* continue.
unmountSettings ==
  /\ form' = defaultValues
  /\ formErrors' = noErrors
  /\ isSubmitted' = FALSE
  /\ isLoading' = FALSE
  /\ UNCHANGED <<mounts, loads, saves, toast, server, edits, posts>>

(***************************************************************************)
(* ExportButton: the export flow.  The button sits in the sidebar footer   *)
(* of Index and stays mounted in every section.                            *)
(***************************************************************************)
\* setTimeout delays after a successful and after a failed export (ms).
successResetDelay == 3000
errorResetDelay == 5000

\* Time passes between events in steps of one second.
Elapses == {1000}

\* api.exportConversions(): fetch() without request(); any non-ok status
\* throws "Export failed", an ok status returns the body as a blob.
exportConversions(resp) ==
  IF ~resp.net
    THEN [tag |-> "throw", message |-> "Failed to fetch"]
  ELSE IF ~responseOk(resp)
    THEN [tag |-> "throw", message |-> "Export failed"]
  ELSE [tag |-> "return", value |-> "blob"]

\* Instants at which a download can be named: day of November 2026 and
\* minute of the day, both in UTC.
Instants == [day : {4, 5}, minute : {90, 1350}]

\* Date.prototype.getTimezoneOffset() of the browser: UTC minus local time,
\* in minutes.
TimezoneOffsets == {-330, 0, 300}

\* YYYY-MM-DD of a day of November 2026.
isoDate(day) ==
  "2026-11-" \o (IF day < 10 THEN "0" ELSE "") \o ToString(day)

\* HH:mm:ss.sss of a minute of the day.
isoTime(minute) ==
  LET two(n) == (IF n < 10 THEN "0" ELSE "") \o ToString(n)
  IN  two(minute \div 60) \o ":" \o two(minute % 60) \o ":00.000"

\* new Date().toISOString() at instant t: date and time in UTC, written
\* here as the parts around the "T" and the closing "Z".
toISOString(t) == <<isoDate(t.day), "T", isoTime(t.minute), "Z">>

\* iso.split("T"): the text before the "T" and the text after it.
splitT(iso) == <<iso[1], iso[3] \o iso[4]>>

\* link.download of an export completed at instant t.
downloadName(t) ==
  "conversions-export-" \o splitT(toISOString(t))[1] \o ".csv"

\* The day on the calendar of the operator at instant t in a browser whose
\* getTimezoneOffset() is tz.
localDay(t, tz) == t.day + ((t.minute - tz) \div 1440)

NoDownload == [id |-> 0, name |-> "", at |-> [day |-> 0, minute |-> 0], tz |-> 0]

ExportInit ==
  /\ state = "idle"
  /\ errorMessage = ""
  /\ exporting = {}
  /\ timers = {}
  /\ shown = 0
  /\ clicks = 0
  /\ download = NoDownload

(***************************************************************************)
(* Phone cells of ConversionsTable and UserAnalytics.  A string is the     *)
(* sequence of its characters.                                             *)
(***************************************************************************)
\* phone.slice(0, n) for n >= 0.
sliceHead(phone, n) ==
  SubSeq(phone, 1, IF n < Len(phone) THEN n ELSE Len(phone))

\* phone.slice(-n) for n > 0.
sliceTail(phone, n) ==
  SubSeq(phone, (IF n < Len(phone) THEN Len(phone) - n ELSE 0) + 1, Len(phone))

\* ConversionsTable (both variants).
formatPhoneNumber(phone) ==
  IF Len(phone) > 6
    THEN sliceHead(phone, 4) \o <<"*", "*", "*", "*">> \o sliceTail(phone, 4)
    ELSE phone

\* UserAnalytics.
maskPhone(phone) ==
  IF Len(phone) > 6
    THEN sliceHead(phone, 4) \o <<"*", "*", "*", "*">> \o sliceTail(phone, 4)
    ELSE <<"*", "*", "*", "*">> \o sliceTail(phone, 2)

PhoneFormatters == {"formatPhoneNumber", "maskPhone"}

\* Phone numbers of the rows: digit strings of up to MaxPhoneLen digits.
Digits == {"4", "7"}
Phones == UNION {[1..n -> Digits] : n \in 0..MaxPhoneLen}

NoCell == [fn |-> "", phone |-> <<>>, text |-> <<>>]

(***************************************************************************)
(* Init: Index renders the dashboard section; its observers subscribe and  *)
(* every key they observe issues its first fetch.                          *)
(***************************************************************************)
Init ==
  /\ activeSection = "dashboard"
  /\ tracked \in TrackedGroups
  /\ days = "30"
  /\ LET cs == SectionContent("dashboard") \cap tracked
         ks == {queryKeyFor(c, "30") : c \in cs}
     IN  /\ cache = [k \in Keys |-> IF k \in ks THEN fetchState(initialState)
                                                ELSE initialState]
         /\ issued = [k \in Keys |-> IF k \in ks THEN 1 ELSE 0]
         /\ inflight = [k \in Keys |-> IF k \in ks THEN {1} ELSE {}]
         /\ requested = [k \in Keys |-> IF k \in ks THEN pathsOf(cs, "30")[k]
                                                    ELSE ""]
         /\ lastEvent = [type |-> "mount", keys |-> ks, issuedFor |-> ks]
  /\ SettingsInit
  /\ ExportInit
  /\ call = [pc |-> "none"]
  /\ cell = NoCell

(***************************************************************************)
(* Actions.                                                                *)
(***************************************************************************)
TimeseriesKeys == {queryKeyFor("AnalyticsCharts", d) : d \in DayRanges}

RECURSIVE SumIssued(_)
SumIssued(ks) ==
  IF ks = {} THEN 0
  ELSE LET k == CHOOSE x \in ks : TRUE
       IN  issued[k] + SumIssued(ks \ {k})

\* The calls that count against MaxIssued for key k: the keys of the day
\* ranges of the timeseries share one count.
issuedCount(k) ==
  IF k \in TimeseriesKeys THEN SumIssued(TimeseriesKeys) ELSE issued[k]

\* Query.fetch() for every key of ks, starting from the entries `c0` and the
\* calls in flight `f0`: a key with a call in flight joins it, any other key
\* issues one Transport call, which requests the path `paths` gives it.
fetchAll(ks, c0, f0, paths) ==
  LET issue == {k \in ks : ~joinsInFlight(f0[k])}
  IN  /\ \A k \in issue : issuedCount(k) < MaxIssued
      /\ requested' = [k \in Keys |-> IF k \in issue THEN paths[k]
                                                    ELSE requested[k]]
      /\ issued' = [k \in Keys |-> IF k \in issue THEN issued[k] + 1
                                                 ELSE issued[k]]
      /\ inflight' = [k \in Keys |-> IF k \in issue
                                       THEN f0[k] \cup {issued[k] + 1}
                                       ELSE f0[k]]
      /\ cache' = [k \in Keys |-> IF k \in issue THEN fetchState(c0[k])
                                                ELSE c0[k]]

\* Sidebar click: setActiveSection(s).  The components of the old section
\* unmount (their observers unsubscribe, their interval timers are cleared),
\* then the components of the new section mount and subscribe.
SwitchSection(s) ==
  /\ s # activeSection
  /\ LET c0 == [k \in Keys |-> cacheAfterLeave(activeSection, k)]
         f0 == [k \in Keys |-> inflightAfterLeave(activeSection, k)]
         ks == {k \in Keys : /\ MountingObserversOf(s, k) # {}
                              /\ shouldFetchOnMount(c0[k])}
     IN  /\ fetchAll(ks, c0, f0, pathsOf(Observers(s), "30"))
         /\ lastEvent' = [type |-> "mount",
                          keys |-> {k \in Keys : MountingObserversOf(s, k) # {}},
                          issuedFor |-> {k \in Keys : issued'[k] # issued[k]}]
  /\ activeSection' = s
  /\ days' = "30"
  /\ UNCHANGED <<tracked, exportVars, transportVars, tableVars>>
  /\ IF s = "settings" THEN mountSettings
     ELSE IF activeSection = "settings" THEN unmountSettings
     ELSE UNCHANGED settingsVars

\* The refetchInterval timer of a subscribed observer fires.
Tick(c) ==
  /\ c \in Observers(activeSection)
  /\ fetchAll({queryKey(c)}, cache, inflight, pathsOf({c}, days))
  /\ lastEvent' = [type |-> "tick", keys |-> {queryKey(c)},
                   issuedFor |-> {k \in Keys : issued'[k] # issued[k]}]
  /\ UNCHANGED <<activeSection, tracked, days, settingsVars, exportVars,
                 transportVars, tableVars>>

\* A Transport call of key k settles with response resp.  The outcome is
\* written to the cache entry whether or not observers remain.
Complete(k, id, resp) ==
  /\ id \in inflight[k]
  /\ LET r == request(resp, id)
         retries == /\ r.tag = "throw"
                    /\ shouldRetry(cache[k].fetchFailureCount)
                    /\ ObserversOf(activeSection, k) # {}
     IN  /\ retries => issuedCount(k) < MaxIssued
         /\ IF r.tag = "return"
              THEN /\ cache' = [cache EXCEPT
                                 ![k] = [successState(@, r.value, id)
                                           EXCEPT !.from = requested[k]]]
                   /\ inflight' = [inflight EXCEPT ![k] = @ \ {id}]
                   /\ UNCHANGED issued
            ELSE IF retries
              THEN /\ cache' = [cache EXCEPT ![k].fetchFailureCount = @ + 1]
                   /\ inflight' = [inflight EXCEPT ![k] = (@ \ {id}) \cup {issued[k] + 1}]
                   /\ issued' = [issued EXCEPT ![k] = @ + 1]
            ELSE /\ cache' = [cache EXCEPT ![k] = errorState(@, r.message, id)]
                 /\ inflight' = [inflight EXCEPT ![k] = @ \ {id}]
                 /\ UNCHANGED issued
         /\ lastEvent' = [type |-> "complete", keys |-> {k},
                          issuedFor |-> IF retries THEN {k} ELSE {},
                          resp |-> resp]
  /\ UNCHANGED <<activeSection, tracked, requested, days, settingsVars,
                 exportVars, transportVars, tableVars>>

\* The operator picks day range d in the Select of AnalyticsCharts:
\* setDays(d).  The observer of the component leaves the query of the old
\* key and subscribes to the query of the new key, which fetches as on a
\* mount; its interval timer now polls the new key.
SetDays(d) ==
  /\ "AnalyticsCharts" \in Observers(activeSection)
  /\ d # days
  /\ LET old == queryKey("AnalyticsCharts")
         new == queryKeyFor("AnalyticsCharts", d)
         c0 == [k \in Keys |-> IF k = old THEN cacheAfterLeave(activeSection, k)
                                          ELSE cache[k]]
         f0 == [k \in Keys |-> IF k = old
                                 THEN inflightAfterLeave(activeSection, k)
                                 ELSE inflight[k]]
         ks == IF new # old /\ shouldFetchOnMount(c0[new]) THEN {new} ELSE {}
     IN  /\ fetchAll(ks, c0, f0, pathsOf({"AnalyticsCharts"}, d))
         /\ lastEvent' = [type |-> "setDays", keys |-> {new}, from |-> old,
                          issuedFor |-> {k \in Keys : issued'[k] # issued[k]}]
  /\ days' = d
  /\ UNCHANGED <<activeSection, tracked, settingsVars, exportVars,
                 transportVars, tableVars>>

\* The operator types value v into field f.  After a submit the field is
\* validated again on every change.
Edit(f, v) ==
  /\ mounted # 0
  /\ edits < MaxEdits
  /\ v # form[f]
  /\ form' = [form EXCEPT ![f] = v]
  /\ formErrors' = IF isSubmitted
                     THEN [formErrors EXCEPT ![f] = settingsSchema(f, v)]
                     ELSE formErrors
  /\ edits' = edits + 1
  /\ lastEvent' = [type |-> "edit", field |-> f]
  /\ UNCHANGED <<activeSection, pollerVars, isSubmitted, isLoading, mounts,
                 loads, saves, toast, server, posts, exportVars,
                 transportVars, tableVars>>

\* The operator submits the form: form.handleSubmit(onSubmit).  The submit
\* button is disabled while isLoading.  Invalid values set the field
\* messages and onSubmit is not called; valid values call onSubmit, which
\* sets isLoading and sends api.saveSettings(data).
Submit ==
  /\ mounted # 0
  /\ ~submitDisabled
  /\ LET errors == resolver(form)
         valid == errors = noErrors
     IN  /\ valid => posts < MaxPosts
         /\ formErrors' = errors
         /\ isSubmitted' = TRUE
         /\ isLoading' = valid
         /\ saves' = IF valid THEN saves \cup {[form |-> mounted, data |-> form]}
                              ELSE saves
         /\ posts' = IF valid THEN posts + 1 ELSE posts
         /\ lastEvent' = [type |-> "submit", valid |-> valid, data |-> form]
  /\ UNCHANGED <<activeSection, pollerVars, form, mounts, loads, toast,
                 server, edits, exportVars, transportVars, tableVars>>

onSaveSuccessKeepsPassword(values) == values

\* onSubmit after a successful save: form.setValue("admin_password", "").
onSaveSuccess(values) == [values EXCEPT !["admin_password"] = ""]

\* An api.saveSettings() call in flight settles with response resp; the
\* rest of onSubmit runs.
SaveComplete(resp) ==
  \E save \in saves :
  /\ LET r == request(resp, [status |-> "ok", message |-> "saved"])
         current == save.form = mounted
     IN  /\ saves' = saves \ {save}
         /\ IF r.tag = "return"
              THEN /\ toast' = [kind |-> "success",
                                message |-> "Settings saved successfully!"]
                   /\ form' = IF current THEN onSaveSuccess(form) ELSE form
                   /\ server' = storeSettings(save.data)
              ELSE /\ toast' = [kind |-> "error",
                                message |-> saveFailureMessage(r.message)]
                   /\ UNCHANGED <<form, server>>
         /\ isLoading' = IF current THEN FALSE ELSE isLoading
         /\ lastEvent' = [type |-> "saveComplete", resp |-> resp,
                          data |-> save.data, current |-> current]
  /\ UNCHANGED <<activeSection, pollerVars, formErrors, isSubmitted, mounts,
                 loads, edits, posts, exportVars, transportVars, tableVars>>

\* api.getSettings() of form instance g settles with response resp; the
\* rest of loadSettings runs: form.reset() on success, console.error on
\* failure.
LoadComplete(g, resp) ==
  /\ g \in loads
  /\ LET r == request(resp, server)
     IN  /\ loads' = loads \ {g}
         /\ IF r.tag = "return" /\ g = mounted
              THEN /\ form' = loadedValues(r.value)
                   /\ formErrors' = noErrors
                   /\ isSubmitted' = FALSE
              ELSE UNCHANGED <<form, formErrors, isSubmitted>>
         /\ lastEvent' = [type |-> "loadComplete", resp |-> resp,
                          current |-> g = mounted]
  /\ UNCHANGED <<activeSection, pollerVars, isLoading, mounts, saves, toast,
                 server, edits, posts, exportVars, transportVars, tableVars>>

\* The operator visits every section but "settings"; the polled components
\* subscribe, tick and receive responses.
PollerNext ==
  \/ \E s \in Sections \ {"settings"} : SwitchSection(s)
  \/ \E c \in Polled : Tick(c)
  \/ \E k \in Keys : \E id \in 1..MaxIssued : \E resp \in Responses :
       Complete(k, id, resp)

\* The backend's settings play no part in polling; the day ranges of
\* AnalyticsCharts are followed under TimeseriesSpec.
PollerInit ==
  /\ Init
  /\ server = [f \in CredentialFields |-> ""]
  /\ "AnalyticsCharts" \notin tracked

PollerSpec == PollerInit /\ [][PollerNext]_vars

\* The operator moves between the two sections that render AnalyticsCharts
\* and one that does not, and picks day ranges; the timeseries keys are
\* polled and answered.
TimeseriesNext ==
  \/ \E s \in {"dashboard", "analytics", "errors"} : SwitchSection(s)
  \/ Tick("AnalyticsCharts")
  \/ \E k \in Keys : \E id \in 1..MaxIssued : \E resp \in Responses :
       Complete(k, id, resp)
  \/ \E d \in DayRanges : SetDays(d)

TimeseriesInit ==
  /\ Init
  /\ server = [f \in CredentialFields |-> ""]
  /\ tracked = {"AnalyticsCharts"}

TimeseriesSpec == TimeseriesInit /\ [][TimeseriesNext]_vars

\* The operator moves between "settings" and "setup" and works with the
\* settings form.
SettingsNext ==
  \/ \E s \in {"settings", "setup"} : SwitchSection(s)
  \/ \E f \in Fields : \E v \in FieldValues(f) : Edit(f, v)
  \/ Submit
  \/ \E resp \in Responses : SaveComplete(resp)
  \/ \E g \in 1..MaxMounts : \E resp \in Responses : LoadComplete(g, resp)

\* The cache entries play no part in the settings form.
SettingsSpecInit == Init /\ tracked = {"ErrorTracking"}

SettingsSpec == SettingsSpecInit /\ [][SettingsNext]_vars

(***************************************************************************)
(* Export flow actions.                                                    *)
(***************************************************************************)
\* The operator clicks the export button, which is disabled while state is
\* "loading": handleExport() runs up to its await.
handleExport ==
  /\ state # "loading"
  /\ clicks < MaxClicks
  /\ state' = "loading"
  /\ errorMessage' = ""
  /\ exporting' = exporting \cup {clicks + 1}
  /\ clicks' = clicks + 1
  /\ shown' = 0
  /\ lastEvent' = [type |-> "click", id |-> clicks + 1]
  /\ UNCHANGED <<activeSection, pollerVars, settingsVars, timers, download,
                 transportVars, tableVars>>

\* api.exportConversions() of export `id` settles with response resp at
\* instant t in a browser of time zone offset tz; the rest of handleExport()
\* runs: the blob is downloaded under a dated name, and a timer is left
\* that nothing clears.
ExportComplete(id, resp, t, tz) ==
  /\ id \in exporting
  /\ LET r == exportConversions(resp)
     IN  /\ exporting' = exporting \ {id}
         /\ IF r.tag = "return"
              THEN /\ download' = [id |-> id, name |-> downloadName(t),
                                   at |-> t, tz |-> tz]
                   /\ state' = "success"
                   /\ timers' = timers \cup
                        {[id |-> id, kind |-> "success",
                          remaining |-> successResetDelay]}
                   /\ UNCHANGED errorMessage
              ELSE /\ errorMessage' = r.message
                   /\ state' = "error"
                   /\ UNCHANGED download
                   /\ timers' = timers \cup
                        {[id |-> id, kind |-> "error",
                          remaining |-> errorResetDelay]}
         /\ shown' = 0
         /\ lastEvent' = [type |-> "exportComplete", id |-> id,
                          ok |-> r.tag = "return"]
  /\ UNCHANGED <<activeSection, pollerVars, settingsVars, clicks,
                 transportVars, tableVars>>

\* A timer that is due runs its callback: setState("idle"), and after a
\* failed export also setErrorMessage("").
TimerFires ==
  \E t \in timers :
  /\ t.remaining = 0
  /\ timers' = timers \ {t}
  /\ state' = "idle"
  /\ errorMessage' = IF t.kind = "error" THEN "" ELSE errorMessage
  /\ shown' = 0
  /\ lastEvent' = [type |-> "timer", id |-> t.id, kind |-> t.kind]
  /\ UNCHANGED <<activeSection, pollerVars, settingsVars, exporting, clicks,
                 download, transportVars, tableVars>>

\* Time passes by d ms; no timer is overdue.
Advance(d) ==
  /\ \A t \in timers : t.remaining >= d
  /\ timers' = {[t EXCEPT !.remaining = @ - d] : t \in timers}
  /\ shown' = IF shown + d > errorResetDelay THEN errorResetDelay
                                              ELSE shown + d
  /\ lastEvent' = [type |-> "advance", by |-> d]
  /\ UNCHANGED <<activeSection, pollerVars, settingsVars, state,
                 errorMessage, exporting, clicks, download, transportVars,
                 tableVars>>

ExportNext ==
  \/ handleExport
  \/ \E id \in 1..MaxClicks : \E resp \in Responses :
       \E t \in Instants : \E tz \in TimezoneOffsets :
         ExportComplete(id, resp, t, tz)
  \/ TimerFires
  \/ \E d \in Elapses : Advance(d)

ExportSpecInit ==
  Init /\ tracked = {"ErrorTracking"} /\ server = [f \in CredentialFields |-> ""]

ExportSpec == ExportSpecInit /\ [][ExportNext]_vars

(***************************************************************************)
(* Transport actions: one call of request() followed from the call to the  *)
(* settlement of its promise.                                              *)
(***************************************************************************)
\* request(path, options) is called: it builds the url and calls fetch().
RequestCall(env, path, options) ==
  /\ call.pc # "fetching"
  /\ call' = [pc |-> "fetching", fn |-> "request", env |-> env,
              url |-> API_BASE_URL(env) \o path,
              options |-> options, init |-> fetchInit(options)]
  /\ lastEvent' = [type |-> "request"]
  /\ UNCHANGED <<activeSection, pollerVars, settingsVars, exportVars,
                 tableVars>>

\* fetch() settles with response resp and request() runs to its end.
RequestSettle(resp) ==
  /\ call.pc = "fetching"
  /\ call.fn = "request"
  /\ call' = [pc |-> "settled", fn |-> "request", env |-> call.env,
              url |-> call.url, options |-> call.options,
              init |-> call.init, resp |-> resp,
              outcome |-> request(resp, "payload")]
  /\ lastEvent' = [type |-> "settle"]
  /\ UNCHANGED <<activeSection, pollerVars, settingsVars, exportVars,
                 tableVars>>

\* Functions of the components and of the api object that call fetch()
\* themselves instead of request(): fetchStats of StatsCard.tsx,
\* fetchConversions of ConversionsTable.tsx, api.exportConversions.
DirectFetchers == {"fetchStats", "fetchConversions", "exportConversions"}

\* The url each of them passes to fetch().
directUrl(fn, env) ==
  CASE fn = "fetchStats"        -> "http://localhost:8000/api/admin/stats"
    [] fn = "fetchConversions"  -> "http://localhost:8000/api/admin/conversions"
    [] fn = "exportConversions" ->
         API_BASE_URL(env) \o "/api/admin/conversions/export"

\* What each of them settles with.
directOutcome(fn, resp) ==
  IF fn = "exportConversions" THEN exportConversions(resp)
  ELSE IF ~resp.net
    THEN [tag |-> "throw", message |-> "Failed to fetch"]
  ELSE IF ~responseOk(resp)
    THEN [tag |-> "throw",
          message |-> IF fn = "fetchStats" THEN "Failed to fetch stats"
                                          ELSE "Failed to fetch conversions"]
  ELSE IF ~resp.json
    THEN [tag |-> "throw", message |-> "Unexpected token"]
  ELSE [tag |-> "return", value |-> "payload"]

\* One of them is called as the queryFn of its component (or by the export
\* button) and calls fetch().
DirectCall(env, fn) ==
  /\ call.pc # "fetching"
  /\ call' = [pc |-> "fetching", fn |-> fn, env |-> env,
              url |-> directUrl(fn, env)]
  /\ lastEvent' = [type |-> "request"]
  /\ UNCHANGED <<activeSection, pollerVars, settingsVars, exportVars,
                 tableVars>>

DirectSettle(resp) ==
  /\ call.pc = "fetching"
  /\ call.fn # "request"
  /\ call' = [pc |-> "settled", fn |-> call.fn, env |-> call.env,
              url |-> call.url, resp |-> resp,
              outcome |-> directOutcome(call.fn, resp)]
  /\ lastEvent' = [type |-> "settle"]
  /\ UNCHANGED <<activeSection, pollerVars, settingsVars, exportVars,
                 tableVars>>

TransportNext ==
  \/ \E env \in ViteApiUrls : \E path \in Paths : \E options \in Options :
       RequestCall(env, path, options)
  \/ \E resp \in TransportResponses : RequestSettle(resp)
  \/ \E env \in ViteApiUrls : \E fn \in DirectFetchers : DirectCall(env, fn)
  \/ \E resp \in TransportResponses : DirectSettle(resp)

TransportSpecInit ==
  Init /\ tracked = {"ErrorTracking"} /\ server = [f \in CredentialFields |-> ""]

TransportSpec == TransportSpecInit /\ [][TransportNext]_vars

(***************************************************************************)
(* Table rows: a row with a phone number is rendered.                      *)
(***************************************************************************)
\* A TableCell renders fn(phone): formatPhoneNumber(conversion.phone_number)
\* in ConversionsTable, maskPhone(user.phone) in UserAnalytics.
RenderPhone(fn, phone) ==
  /\ cell' = [fn |-> fn, phone |-> phone,
              text |-> IF fn = "maskPhone" THEN maskPhone(phone)
                                           ELSE formatPhoneNumber(phone)]
  /\ lastEvent' = [type |-> "render"]
  /\ UNCHANGED <<activeSection, pollerVars, settingsVars, exportVars,
                 transportVars>>

TableNext ==
  \E fn \in PhoneFormatters : \E phone \in Phones : RenderPhone(fn, phone)

TableSpecInit ==
  Init /\ tracked = {"ErrorTracking"} /\ server = [f \in CredentialFields |-> ""]

TableSpec == TableSpecInit /\ [][TableNext]_vars

(***************************************************************************)
(* Resource State of a key as a consumer of the Poller/Cache sees it:      *)
(* loading while a Transport call is in flight, idle before the first      *)
(* call, otherwise the status of the last outcome.                         *)
(***************************************************************************)
ResourceStatus(k) ==
  IF Fetching(k) THEN "loading"
  ELSE IF cache[k].status = "pending" THEN "idle"
  ELSE cache[k].status

ResourceState(k) ==
  [status |-> ResourceStatus(k), data |-> cache[k].data, error |-> cache[k].error]

\* The step just taken settled a Transport call of key k.
Settled(k) == lastEvent.type = "complete" /\ lastEvent.keys = {k}

\* The step just taken subscribed observers to key k.
Subscribed(k) == lastEvent.type = "mount" /\ k \in lastEvent.keys

(***************************************************************************)
(* Poller/Cache properties, checked under PollerSpec.                      *)
(***************************************************************************)

\* C1: for every resource key at most one Transport call is in flight at any
\* time; while a call of a key is in flight, a subscription or a timer tick
\* of any subscriber issues no other call for that key, and the result
\* that is committed when the key stops fetching is that of the call that
\* was in flight.
C1_SingleFlight ==
  /\ [](\A k \in Keys : Cardinality(inflight[k]) <= 1)
  /\ [][\A k \in Keys :
          (Fetching(k) /\ lastEvent'.type \in {"tick", "mount"})
            => issued'[k] = issued[k] /\ inflight'[k] = inflight[k]]_vars
  /\ [][\A k \in Keys : (Fetching(k) /\ ~Fetching(k)')
                          => cache'[k].committed \in inflight[k]]_vars

\* A timer tick of a subscriber of "userAnalytics" arrived while the call of
\* that key was in flight and issued nothing.
C1_Witness ==
  /\ lastEvent.type = "tick"
  /\ lastEvent.keys = {"userAnalytics"}
  /\ lastEvent.issuedFor = {}
  /\ Cardinality(inflight["userAnalytics"]) = 1

\* C2: for every resource key, once every issued call has arrived the entry
\* holds the outcome of the most recently issued call; an earlier call never
\* overwrites it.
C2_LatestIssuedWins ==
  \A k \in Keys : ~Fetching(k) => cache[k].committed = issued[k]

\* Two calls of one key were issued and both have arrived; the entry holds
\* the data of the second.
C2_Witness ==
  \E k \in Keys : /\ issued[k] = 2
                  /\ ~Fetching(k)
                  /\ cache[k].status = "success"
                  /\ cache[k].data = 2

\* C3 as stated: after the last consumer of a key has unsubscribed, the
\* completion of the call that was in flight leaves the cached Resource
\* State of the key unchanged.
C3_Original ==
  [][\A k \in Keys :
       (ObserversOf(activeSection, k) = {} /\ ObserversOf(activeSection, k)' = {})
         => ResourceState(k)' = ResourceState(k)]_vars

\* C3 amended: unsubscribing does not cancel the call in flight; while the
\* key has no consumer no call is issued for it, and the completion of the
\* call in flight is committed to the cache entry as usual: fresh data and
\* no error on success, the error with the previous data on failure.
C3_UnobservedCompletionCommitted ==
  /\ [][\A k \in Keys :
          (activeSection' # activeSection /\ ObserversOf(activeSection, k) # {})
            => inflight[k] \subseteq inflight'[k]]_vars
  /\ [][\A k \in Keys :
          (ObserversOf(activeSection, k) = {} /\ ObserversOf(activeSection, k)' = {})
            => /\ issued'[k] = issued[k]
               /\ inflight'[k] # inflight[k]
                    => /\ inflight'[k] = {}
                       /\ cache'[k].committed = issued[k]
                       /\ \/ /\ cache'[k].status = "success"
                             /\ cache'[k].data = issued[k]
                             /\ cache'[k].error = NoError
                          \/ /\ cache'[k].status = "error"
                             /\ cache'[k].data = cache[k].data
                             /\ cache'[k].error # NoError]_vars

\* The call of "stats" settled successfully while no consumer of "stats" was
\* subscribed, and its data is in the cache.
C3_Witness ==
  /\ ObserversOf(activeSection, "stats") = {}
  /\ Settled("stats")
  /\ cache["stats"].status = "success"
  /\ cache["stats"].data = issued["stats"]

AllowedTransitions ==
  { <<"idle", "loading">>, <<"loading", "success">>, <<"loading", "error">>,
    <<"success", "loading">>, <<"error", "loading">> }

\* C4: for every resource key the status changes only along
\* idle -> loading -> (success | error) and success|error -> loading; a step
\* that does not change the status changes neither data nor error, and every
\* step into loading issues exactly one Transport call.
C4_Transitions ==
  [][\A k \in Keys :
       IF ResourceStatus(k)' = ResourceStatus(k)
         THEN ResourceState(k)' = ResourceState(k)
         ELSE /\ <<ResourceStatus(k), ResourceStatus(k)'>> \in AllowedTransitions
              /\ ResourceStatus(k)' = "loading" => issued'[k] = issued[k] + 1]_vars

\* "errorTracking" started idle, was loaded, and a later poll ended in error.
C4_Witness ==
  /\ tracked = {"ErrorTracking"}
  /\ issued["errorTracking"] >= 2
  /\ cache["errorTracking"].data # NoData
  /\ ResourceStatus("errorTracking") = "error"

\* C5: when a fetch of a key fails, the entry keeps the data it had (the data
\* of the last successful fetch, if any), reports status error and records
\* the error of the failed call.
C5_ErrorKeepsData ==
  /\ [](\A k \in Keys : cache[k].status = "error" <=> cache[k].error # NoError)
  /\ [][\A k \in Keys :
          (Settled(k)' /\ request(lastEvent'.resp, 0).tag = "throw")
            => /\ cache'[k].data = cache[k].data
               /\ ~Fetching(k)'
                    => /\ cache'[k].status = "error"
                       /\ cache'[k].error = request(lastEvent'.resp, 0).message]_vars

\* A fetch failed after an earlier one had succeeded: status error, error
\* recorded, data of the earlier fetch still there.
C5_Witness ==
  \E k \in Keys : /\ Settled(k)
                  /\ cache[k].status = "error"
                  /\ cache[k].error # NoError
                  /\ cache[k].data # NoData
                  /\ cache[k].data < issued[k]

\* C6: a poll of "stats" answered with HTTP 500 leaves status error with the
\* data absent or stale; a poll that succeeds afterwards sets status success
\* with the data of that poll and no error; and in the error state the next
\* tick of a subscriber can issue a call again.
C6_ErrorThenRecovery ==
  /\ [][(Settled("stats")' /\ lastEvent'.resp.status = 500)
          => /\ cache'["stats"].data = cache["stats"].data
             /\ ~Fetching("stats")'
                  => /\ cache'["stats"].status = "error"
                     /\ cache'["stats"].error = "Internal error"]_vars
  /\ [][(Settled("stats")' /\ request(lastEvent'.resp, 0).tag = "return")
          => /\ cache'["stats"].status = "success"
             /\ cache'["stats"].data = issued["stats"]
             /\ cache'["stats"].error = NoError]_vars
  /\ [](\A c \in ObserversOf(activeSection, "stats") :
          (cache["stats"].status = "error" /\ ~Fetching("stats")
             /\ issued["stats"] < MaxIssued) => ENABLED Tick(c))

\* The poll of "stats" that followed an HTTP 500 has succeeded.
C6_Witness ==
  /\ Settled("stats")
  /\ cache["stats"].revert.error = "Internal error"
  /\ cache["stats"].status = "success"
  /\ cache["stats"].data = issued["stats"]
  /\ cache["stats"].error = NoError

\* C7 as stated: while a key has no consumer no call is issued for it, and
\* every subscription issues a call at subscription time.
C7_Original ==
  [][\A k \in Keys :
       /\ (ObserversOf(activeSection, k) = {} /\ ObserversOf(activeSection, k)' = {})
            => issued'[k] = issued[k]
       /\ (activeSection' # activeSection /\ ObserversOf(activeSection, k)' # {})
            => issued'[k] = issued[k] + 1]_vars

\* C7 amended: while a key has no consumer no call is issued for it; a
\* subscription issues a call at subscription time unless a call of the key
\* is still in flight, and then the subscriber attaches to that call.
C7_ResubscribeFetchesUnlessInFlight ==
  [][\A k \in Keys :
       /\ (ObserversOf(activeSection, k) = {} /\ ObserversOf(activeSection, k)' = {})
            => issued'[k] = issued[k]
       /\ (activeSection' # activeSection /\ ObserversOf(activeSection, k)' # {})
            => /\ Fetching(k)'
               /\ issued'[k] = IF Fetching(k) THEN issued[k] ELSE issued[k] + 1]_vars

\* A key with cached data was subscribed again and a call was issued at once.
C7_Witness ==
  \E k \in Keys : /\ Subscribed(k)
                  /\ k \in lastEvent.issuedFor
                  /\ cache[k].data # NoData
                  /\ inflight[k] = {issued[k]}

Submitted == lastEvent.type = "submit"

\* The step just taken settled a save with a success response.
SaveSucceeded ==
  lastEvent.type = "saveComplete" /\ request(lastEvent.resp, 0).tag = "return"

\* Values that violate the schema, in the words of the validation rule.
ViolatesSchema(values) ==
  \/ \E f \in CredentialFields : values[f] = ""
  \/ Len(values["admin_password"]) < 6

\* C9: a submit whose values violate the schema (a credential field empty,
\* or admin_password shorter than 6 characters) sends nothing to the
\* network, leaves the form not submitting with every value unchanged, and
\* sets a message on each violating field; every save in flight carries
\* four non-empty credential fields and a password of at least 6 characters.
C9_InvalidSubmitStaysLocal ==
  /\ [](\A save \in saves : ~ViolatesSchema(save.data))
  /\ [][(Submitted' /\ ViolatesSchema(form))
          => /\ posts' = posts
             /\ saves' = saves
             /\ form' = form
             /\ ~isLoading'
             /\ \A f \in CredentialFields :
                  form[f] = "" => formErrors'[f] = "Required"
             /\ Len(form["admin_password"]) < 6
                  => formErrors'["admin_password"] = "Minimum 6 characters"]_vars

\* Four credentials filled in and a 5-character password were submitted:
\* nothing was sent and the password field carries the length message.
C9_Witness ==
  /\ Submitted
  /\ \A f \in CredentialFields : form[f] # ""
  /\ form["admin_password"] = "abcde"
  /\ formErrors["admin_password"] = "Minimum 6 characters"
  /\ posts = 0
  /\ saves = {}
  /\ ~isLoading

\* C10 as stated: when a save succeeds, the form on screen has an empty
\* admin_password, its four credential fields hold the submitted values, a
\* success notification is shown and the form is not submitting.
C10_Original ==
  [][(SaveSucceeded' /\ mounted # 0)
       => /\ form'["admin_password"] = ""
          /\ \A f \in CredentialFields : form'[f] = lastEvent'.data[f]
          /\ toast'.kind = "success"
          /\ ~isLoading']_vars

\* C10 amended: when a save succeeds a success notification is shown; if the
\* form that sent it is still on screen, its admin_password is empty
\* immediately afterwards, its four credential fields are left as they are
\* (the submitted values unless the operator edited them while the save was
\* in flight) and it is not submitting; another form instance is untouched.
\* The values sent are those of the form at the submit.
C10_SaveSuccessClearsPassword ==
  /\ [](\A save \in saves :
          (Submitted /\ save.form = mounted) => save.data = lastEvent.data)
  /\ [][(Submitted' /\ lastEvent'.valid)
          => [form |-> mounted, data |-> form] \in saves' /\ form' = form]_vars
  /\ [][SaveSucceeded'
          => /\ toast' = [kind |-> "success",
                          message |-> "Settings saved successfully!"]
             /\ IF lastEvent'.current
                  THEN /\ form'["admin_password"] = ""
                       /\ \A f \in CredentialFields : form'[f] = form[f]
                       /\ ~isLoading'
                  ELSE form' = form /\ isLoading' = isLoading]_vars

\* A save with password "secret" succeeded for the form on screen: password
\* empty, credentials as submitted, success shown, not submitting.
C10_Witness ==
  /\ SaveSucceeded
  /\ lastEvent.current
  /\ lastEvent.data["admin_password"] = "secret"
  /\ form["admin_password"] = ""
  /\ \A f \in CredentialFields : form[f] = lastEvent.data[f] /\ form[f] # ""
  /\ toast.kind = "success"
  /\ ~isLoading

\* The step just taken settled a save with a failure.
SaveFailed ==
  lastEvent.type = "saveComplete" /\ request(lastEvent.resp, 0).tag = "throw"

\* C11 as stated: when a save fails, the five fields of the form on screen
\* hold exactly the submitted values, the failure message is reported and
\* the form is not submitting.
C11_Original ==
  [][(SaveFailed' /\ mounted # 0)
       => /\ form' = lastEvent'.data
          /\ toast'.kind = "error"
          /\ ~isLoading']_vars

\* C11 amended: when a save fails, the message of the failure is reported
\* in an error notification and nothing is stored; if the form that sent
\* the save is still on screen, the failure changes none of its five fields
\* (they hold the submitted values, admin_password included, unless the
\* operator edited them while the save was in flight), its field messages
\* stay, it is no longer submitting and it can be submitted again; another
\* form instance is untouched.
C11_SaveFailureKeepsValues ==
  /\ [][SaveFailed'
          => /\ toast' = [kind |-> "error",
                          message |-> request(lastEvent'.resp, 0).message]
             /\ form' = form
             /\ formErrors' = formErrors
             /\ server' = server
             /\ IF lastEvent'.current THEN ~isLoading'
                                      ELSE isLoading' = isLoading]_vars
  /\ [][(Submitted' /\ lastEvent'.valid)
          => form' = form /\ lastEvent'.data = form]_vars
  /\ []((SaveFailed /\ lastEvent.current /\ posts < MaxPosts)
          => ENABLED Submit)

\* A save carrying password "secret" failed for the form on screen: the
\* five fields still hold the submitted values, the error is shown and the
\* form is not submitting.
C11_Witness ==
  /\ SaveFailed
  /\ lastEvent.current
  /\ form = lastEvent.data
  /\ form["admin_password"] = "secret"
  /\ toast.kind = "error"
  /\ toast.message = "Internal error"
  /\ ~isLoading

\* The step just taken settled a load.
LoadSettled == lastEvent.type = "loadComplete"

LoadSucceeded == LoadSettled /\ request(lastEvent.resp, 0).tag = "return"

LoadFailed == LoadSettled /\ request(lastEvent.resp, 0).tag = "throw"

\* C12: every entry into the settings section mounts a form with empty
\* values and issues exactly one load call, and no other step issues one;
\* when the load of the form on screen succeeds, its four credential fields
\* hold the loaded values (empty where the backend has none) and
\* admin_password is empty; no load ever puts a value into admin_password;
\* when the load fails the form is left as it is (empty unless the operator
\* has typed) and the operator can still edit and submit.
C12_LoadFillsCredentialsOnly ==
  /\ [][(activeSection' = "settings" /\ activeSection # "settings")
          => /\ mounts' = mounts + 1
             /\ loads' = loads \cup {mounts'}
             /\ Cardinality(loads') = Cardinality(loads) + 1
             /\ form' = defaultValues]_vars
  /\ [][~(loads' \subseteq loads)
          => (activeSection' = "settings" /\ activeSection # "settings")]_vars
  /\ [][(LoadSucceeded' /\ lastEvent'.current)
          => /\ \A f \in CredentialFields :
                  form'[f] = IF server[f] = Unset THEN "" ELSE server[f]
             /\ form'["admin_password"] = ""]_vars
  /\ [][LoadSettled'
          => form'["admin_password"] \in {"", form["admin_password"]}]_vars
  /\ [][(LoadFailed' \/ (LoadSettled' /\ ~lastEvent'.current))
          => form' = form /\ formErrors' = formErrors]_vars
  /\ []((LoadFailed /\ lastEvent.current)
          => /\ posts < MaxPosts => ENABLED Submit
             /\ edits < MaxEdits
                  => \A f \in Fields : \A v \in FieldValues(f) \ {form[f]} :
                       ENABLED Edit(f, v))

\* The operator had typed before the load of the form on screen arrived;
\* the load succeeded: the credentials are those of the backend and the
\* password field is empty.
C12_Witness ==
  /\ LoadSucceeded
  /\ lastEvent.current
  /\ edits >= 1
  /\ \A f \in CredentialFields : form[f] = "123" /\ server[f] = "123"
  /\ form["admin_password"] = ""

\* C13: every failure of the settings load, of a settings save and of an
\* export produces a message the operator sees: the error notification
\* carrying the failure's message for the settings calls, the error state
\* with its message for the export.
C13_Original ==
  /\ [][(LoadFailed' \/ SaveFailed')
          => toast' = [kind |-> "error",
                       message |-> request(lastEvent'.resp, 0).message]]_vars
  /\ [][(lastEvent'.type = "exportComplete" /\ ~lastEvent'.ok)
          => state' = "error" /\ errorMessage' # ""]_vars

(***************************************************************************)
(* Export Flow properties, checked under ExportSpec.                       *)
(***************************************************************************)

\* C14: at every moment at most one export request is in flight, under any
\* interleaving of operator clicks, request completions and auto-reset
\* timers; while one is in flight a click starts no other.
C14_Original ==
  /\ [](Cardinality(exporting) <= 1)
  /\ [][exporting # {} => clicks' = clicks]_vars

\* C15: after an export succeeds the flow stays in "success" for the whole
\* 3-second window and is then reset to "idle"; before the window ends it
\* leaves "success" only by a click of the operator.
C15_Original ==
  /\ [][(state = "success" /\ state' # "success")
          => \/ lastEvent'.type = "click"
             \/ shown >= successResetDelay /\ state' = "idle"]_vars
  /\ [](state = "success" => shown <= successResetDelay)

\* C16: after an export fails the flow stays in "error" with its message for
\* the whole 5-second window before the reset to "idle" clears it; before
\* the window ends only a click of the operator ends the display, never a
\* timer left by an earlier export.
C16_Original ==
  /\ [](state = "error" => errorMessage # "")
  /\ [][(state = "error" /\ (state' # "error" \/ errorMessage' # errorMessage))
          => \/ lastEvent'.type = "click"
             \/ /\ shown >= errorResetDelay
                /\ state' = "idle"
                /\ errorMessage' = ""]_vars

(***************************************************************************)
(* Settings round trip, checked under SettingsSpec.                        *)
(***************************************************************************)

\* C17: the settings the backend holds change only when a save is accepted,
\* and are then the four credentials of that save, all valid; a load that
\* succeeds for the form on screen while the backend holds them (no other
\* save accepted in between) fills the form with those four credentials and
\* an empty admin_password.
C17_SaveThenLoadRoundTrip ==
  /\ [][server' # server => SaveSucceeded']_vars
  /\ [][SaveSucceeded'
          => /\ \A f \in CredentialFields : server'[f] = lastEvent'.data[f]
             /\ ~ViolatesSchema(lastEvent'.data)]_vars
  /\ [][(LoadSucceeded' /\ lastEvent'.current
           /\ \A f \in CredentialFields : server[f] # Unset)
          => /\ \A f \in CredentialFields : form'[f] = server[f]
             /\ form'["admin_password"] = ""]_vars

\* The form was mounted again after a save that changed a credential to
\* "456" had been accepted; its load succeeded and shows the saved values.
C17_Witness ==
  /\ LoadSucceeded
  /\ lastEvent.current
  /\ mounts = 2
  /\ posts = 1
  /\ saves = {}
  /\ \E f \in CredentialFields : server[f] = "456"
  /\ \A f \in CredentialFields : form[f] = server[f] /\ form[f] # ""
  /\ form["admin_password"] = ""

(***************************************************************************)
(* Transport properties.                                                   *)
(***************************************************************************)
\* The call of request() followed has settled on a response with a
\* non-success HTTP status.
SettledOnErrorStatus ==
  /\ call.pc = "settled"
  /\ call.fn = "request"
  /\ call.resp.net
  /\ ~responseOk(call.resp)

\* C18 as stated: on a non-success status request() fails, and the message
\* of the error is the `detail` of the decoded body, or the status text when
\* the body cannot be decoded.
C18_Original ==
  SettledOnErrorStatus
    => /\ call.outcome.tag = "throw"
       /\ call.outcome.message = IF call.resp.json THEN call.resp.detail
                                                   ELSE call.resp.statusText

\* C18 amended: on a non-success status request() never returns a value; it
\* fails with the `detail` of the decoded body when that is not empty, with
\* the status text when the body cannot be decoded and the status text is
\* not empty, and otherwise with "Request failed: <status>".
C18_ErrorMessageFallbacks ==
  SettledOnErrorStatus
    => /\ call.outcome.tag = "throw"
       /\ call.outcome.message # ""
       /\ (call.resp.json /\ call.resp.detail # "")
            => call.outcome.message = call.resp.detail
       /\ (~call.resp.json /\ call.resp.statusText # "")
            => call.outcome.message = call.resp.statusText
       /\ (call.resp.json /\ call.resp.detail = "")
            => call.outcome.message =
                 "Request failed: " \o ToString(call.resp.status)
       /\ (~call.resp.json /\ call.resp.statusText = "")
            => call.outcome.message =
                 "Request failed: " \o ToString(call.resp.status)

\* A call settled on a 502 whose body is not JSON and whose status line has
\* no reason phrase: the message names the status.
C18_Witness ==
  /\ SettledOnErrorStatus
  /\ call.resp.status = 502
  /\ ~call.resp.json
  /\ call.resp.statusText = ""
  /\ call.outcome = [tag |-> "throw", message |-> "Request failed: 502"]

\* A response with a success status whose body does not decode as JSON.
DecodeFailure(resp) == resp.net /\ responseOk(resp) /\ ~resp.json

\* C19: a fetch answered with a success status and a body that is not JSON
\* is recorded as an error and leaves the cached data of its key as it was;
\* the data of a key is replaced only by the completion of a call whose
\* body decoded, and is then the payload of that call.
C19_DecodeFailureIsError ==
  /\ [][\A k \in Keys :
          (Settled(k)' /\ DecodeFailure(lastEvent'.resp))
            => /\ cache'[k].data = cache[k].data
               /\ ~Fetching(k)'
                    => cache'[k].status = "error" /\ cache'[k].error # NoError]_vars
  /\ [][\A k \in Keys :
          cache'[k].data # cache[k].data
            => /\ Settled(k)'
               /\ lastEvent'.resp.net
               /\ responseOk(lastEvent'.resp)
               /\ lastEvent'.resp.json
               /\ cache'[k].data \in inflight[k]]_vars

\* A poll of a key that had data was answered 200 with a body that is not
\* JSON: the entry reports the error and still holds the earlier data.
C19_Witness ==
  \E k \in Keys : /\ Settled(k)
                  /\ DecodeFailure(lastEvent.resp)
                  /\ cache[k].status = "error"
                  /\ cache[k].error = "Unexpected token"
                  /\ cache[k].data # NoData
                  /\ cache[k].data < issued[k]

EndpointPaths ==
  {"/api/admin/stats", "/api/admin/conversions", "/api/admin/settings",
   "/api/admin/analytics/features", "/api/admin/analytics/users",
   "/api/admin/analytics/errors", "/api/admin/system/health",
   "/api/admin/conversions/export", "/health"}

\* C21: every request of a dashboard component is issued by the central API
\* client (request() or api.exportConversions) and its url is the configured
\* base URL, VITE_API_URL or else http://localhost:8000, followed by the
\* path of an endpoint; no component passes a hardcoded url to fetch().
C21_Original ==
  call.pc # "none"
    => /\ call.fn \in {"request", "exportConversions"}
       /\ \E path \in EndpointPaths :
            call.url = API_BASE_URL(call.env) \o path

\* The request the key of day range d stands for: days=d, as selected.
TimeseriesRequest(d) == "/api/admin/analytics/timeseries?days=" \o d

\* Every timeseries entry was requested with, and holds data of, its own
\* day range.
TimeseriesEntriesOwnRange ==
  \A d \in DayRanges :
    LET k == queryKeyFor("AnalyticsCharts", d)
    IN  /\ \A d2 \in DayRanges \ {d} : queryKeyFor("AnalyticsCharts", d2) # k
        /\ requested[k] \in {"", TimeseriesRequest(d)}
        /\ cache[k].data # NoData => cache[k].from = TimeseriesRequest(d)

\* C22: the timeseries keys of different day ranges are distinct cache
\* entries; a fetch for range d requests days=d unmodified, and its result
\* is stored only in the entry of d: when a call of one timeseries key
\* settles, every other entry is left as it was.
C22_RangesAreSeparateEntries ==
  /\ []TimeseriesEntriesOwnRange
  /\ [][\A k \in TimeseriesKeys :
          Settled(k)' => \A k2 \in Keys \ {k} : cache'[k2] = cache[k2]]_vars

\* A call of range "7" settled with data while the entry of "30" holds the
\* data of an earlier call.
C22_Witness ==
  /\ Settled(queryKeyFor("AnalyticsCharts", "7"))
  /\ request(lastEvent.resp, 1).tag = "return"
  /\ cache[queryKeyFor("AnalyticsCharts", "7")].from = TimeseriesRequest("7")
  /\ cache[queryKeyFor("AnalyticsCharts", "7")].data # NoData
  /\ cache[queryKeyFor("AnalyticsCharts", "30")].data # NoData
  /\ cache[queryKeyFor("AnalyticsCharts", "30")].from = TimeseriesRequest("30")

\* C23: each resource key is polled at one fixed interval: no two
\* subscriptions to the same key declare different refetch intervals.
C23_Original ==
  \A c1, c2 \in Observers(activeSection) :
    queryKey(c1) = queryKey(c2) => refetchInterval(c1) = refetchInterval(c2)

\* C24: on every successful export the downloaded file is named
\* conversions-export-<date>.csv, <date> being the current calendar date of
\* the operator as YYYY-MM-DD, and every invocation requests a new artifact
\* from the backend.
C24_Original ==
  /\ [](download # NoDownload
          => download.name
               = "conversions-export-"
                   \o isoDate(localDay(download.at, download.tz)) \o ".csv")
  /\ [][lastEvent'.type = "click"
          => /\ lastEvent'.id \notin exporting
             /\ exporting' = exporting \cup {lastEvent'.id}]_vars

\* Digits of the phone number that a displayed text shows: its characters
\* other than the mask.
DigitsShown(text) == Cardinality({i \in DOMAIN text : text[i] # "*"})

\* C25: for every phone number string the value displayed by
\* formatPhoneNumber and by maskPhone does not reveal every digit of the
\* number: it shows fewer digits than the number has, at least one being
\* replaced by the mask.
C25_Original ==
  (cell.fn # "" /\ Len(cell.phone) > 0)
    => DigitsShown(cell.text) < Len(cell.phone)

\* C26: the export state is "loading" exactly while an export request is in
\* flight, and the timer of an earlier export never sets the state to idle
\* while a later export is in flight.
C26_Original ==
  /\ [](state = "loading" <=> exporting # {})
  /\ [][(lastEvent'.type = "timer" /\ exporting # {})
          => state' = "loading"]_vars

(***************************************************************************)
(* Settings Lifecycle: the isLoading flag and the saves in flight.         *)
(***************************************************************************)
\* The saves in flight that form instance g submitted.
SavesOf(g) == {save \in saves : save.form = g}

\* C27 as stated: isLoading is true exactly while a save request is in
\* flight, at most one save is in flight at any time, and the completion of
\* a save sets isLoading to false.
C27_Original ==
  /\ [](isLoading <=> saves # {})
  /\ [](Cardinality(saves) <= 1)
  /\ [][lastEvent'.type = "saveComplete" => ~isLoading']_vars

\* C27, amended: the flag of the mounted SettingsForm is true exactly while
\* a save that this instance submitted is in flight; an instance has at
\* most one save in flight; and when the save of the mounted instance
\* completes, isLoading is false.
C27_FlagFollowsOwnSave ==
  /\ [](mounted # 0 => (isLoading <=> SavesOf(mounted) # {}))
  /\ [](\A g \in 1..MaxMounts : Cardinality(SavesOf(g)) <= 1)
  /\ [][(lastEvent'.type = "saveComplete" /\ lastEvent'.current)
          => ~isLoading']_vars

\* The save of the second form instance completed while the save of the
\* first, unmounted since, is still in flight.
C27_Witness ==
  /\ lastEvent.type = "saveComplete"
  /\ lastEvent.current
  /\ mounted = 2
  /\ ~isLoading
  /\ SavesOf(1) # {}

\* C28: values the operator has typed into the form on screen change only
\* through further edits or through the clearing of admin_password after a
\* successful save; a settings load that completes after the operator has
\* started editing, or while a save is in flight, leaves them unchanged.
C28_Original ==
  [][\A f \in Fields :
       (/\ mounted # 0
        /\ mounted' = mounted
        /\ form[f] # defaultValues[f]
        /\ form'[f] # form[f])
         => \/ lastEvent'.type = "edit"
            \/ /\ lastEvent'.type = "saveComplete"
               /\ request(lastEvent'.resp, 0).tag = "return"
               /\ f = "admin_password"
               /\ form'[f] = ""]_vars

(***************************************************************************)
(* Consumers of one key.                                                   *)
(***************************************************************************)
\* What component c shows: the Resource State of the entry of its key and
\* the call whose outcome the entry holds.
ViewOf(c) ==
  [state |-> ResourceState(queryKey(c)), call |-> cache[queryKey(c)].committed]

ChartsMounted == "AnalyticsCharts" \in Observers(activeSection)

\* The step just taken settled a call of the key of a day range that is not
\* the selected one.
SettledOtherRange ==
  \E d \in DayRanges \ {days} : Settled(queryKeyFor("AnalyticsCharts", d))

\* C30: the timeseries data AnalyticsCharts shows always belongs to the
\* selected day range: it was requested with days equal to the selection.
\* A call for range d1 that completes after the selection changed to d2
\* leaves what is shown for d2 as it was, and after the change no poll is
\* issued for the key of d1.
C30_ShownDataOfSelectedRange ==
  /\ []((ChartsMounted /\ ViewOf("AnalyticsCharts").state.data # NoData)
          => cache[queryKey("AnalyticsCharts")].from = TimeseriesRequest(days))
  /\ [][(ChartsMounted /\ SettledOtherRange')
          => ViewOf("AnalyticsCharts")' = ViewOf("AnalyticsCharts")]_vars
  /\ [][\A d \in DayRanges :
          (ChartsMounted' /\ d # days')
            => issued'[queryKeyFor("AnalyticsCharts", d)]
                 = issued[queryKeyFor("AnalyticsCharts", d)]]_vars

\* The operator changed the range from "30" to "7" while the call for "30"
\* was in flight; the call for "7" succeeded and its data is shown; now the
\* call for "30" has succeeded as well.
C30_Witness ==
  /\ ChartsMounted
  /\ days = "7"
  /\ Settled(queryKeyFor("AnalyticsCharts", "30"))
  /\ cache[queryKeyFor("AnalyticsCharts", "30")].data # NoData
  /\ ViewOf("AnalyticsCharts").state.data # NoData
  /\ cache[queryKey("AnalyticsCharts")].from = TimeseriesRequest("7")

====
